---- MODULE Spec2Model ----
(***************************************************************************)
(* Personal Expense Tracker (src/expense_tracker.py).                      *)
(*                                                                         *)
(* State machine of one interactive session: the backing CSV file, the    *)
(* in-memory list of expense dicts, the position of the control flow in   *)
(* main() and in the prompt loops of the handlers, and what was printed.  *)
(*                                                                         *)
(* Text is modelled as a sequence of symbols.  A symbol is one character  *)
(* (letter, space, comma, double quote, line terminator) or an atom that  *)
(* stands for a run of ordinary characters ("Food", "5.0", ...).          *)
(* Finite float values are modelled as exact rationals; inf and nan are   *)
(* kept as the distinct values they are in Python.                        *)
(***************************************************************************)
EXTENDS Integers, Sequences, FiniteSets, TLC

VARIABLES
    file,         \* content of expenses.csv: a sequence of symbols, or NoFile
    expenses,     \* the list `expenses` of main()
    pc,           \* control position
    category,     \* local `category` of add_expense
    description,  \* local `description` of add_expense
    answer,       \* the last line read by input()
    msg,          \* the last status line printed
    out,          \* what the last view computed and rendered
    exc           \* the exception that terminated the process, or "none"

vars == <<file, expenses, pc, category, description, answer, msg, out, exc>>

----------------------------------------------------------------------------
(* Bounds *)

\* the longest collection an Add is offered on
MaxLen == 2

----------------------------------------------------------------------------
(* Symbols *)

COMMA == ","
QUOTE == "\""
NL    == "\n"
SP    == " "
\* a run of more than csv.field_size_limit() characters
HUGE  == "<huge>"
\* Python's None as a dict value
None  == <<"<None>">>
\* the key csv.DictReader files surplus fields under (restkey=None)
RestKey == <<"<restkey>">>
NoFile == <<"<no file>">>

CATEGORIES ==
    << <<"Food">>, <<"Transport">>, <<"Entertainment">>, <<"Bills">>, <<"Shopping">>,
       <<"Health">>, <<"Other">> >>

fieldnames == << <<"date">>, <<"category">>, <<"description">>, <<"amount">> >>

Today == <<"2024-06-01">>

Range(s) == {s[i] : i \in DOMAIN s}

----------------------------------------------------------------------------
(* Floats *)

Fin(n)  == [k |-> "fin", n |-> n, d |-> 1]
Inf     == [k |-> "inf", n |-> 1, d |-> 1]
NaN     == [k |-> "nan", n |-> 0, d |-> 1]
ValueError == [k |-> "ValueError", n |-> 0, d |-> 1]
TypeError  == [k |-> "TypeError", n |-> 0, d |-> 1]

IsErr(x) == x.k \in {"ValueError", "TypeError", "KeyError", "ZeroDivisionError"}

\* float(s) for the strings the model uses
float(s) ==
    CASE s = None        -> TypeError
      [] s = <<"5">>     -> Fin(5)
      [] s = <<"5.0">>   -> Fin(5)
      [] s = <<"3.0">>   -> Fin(3)
      [] s = <<"0">>     -> Fin(0)
      [] s = <<"0.0">>   -> Fin(0)
      [] s = <<"-5.0">>  -> Fin(-5)
      [] s = <<"inf">>   -> Inf
      [] s = <<"nan">>   -> NaN
      [] OTHER           -> ValueError

\* str(x) of a float
str(x) ==
    CASE x.k = "inf" /\ x.n > 0 -> <<"inf">>
      [] x.k = "inf" /\ x.n < 0 -> <<"-inf">>
      [] x.k = "nan"            -> <<"nan">>
      [] x = Fin(5)             -> <<"5.0">>
      [] x = Fin(3)             -> <<"3.0">>
      [] x = Fin(0)             -> <<"0.0">>
      [] x = Fin(-5)            -> <<"-5.0">>

\* x > 0
Gt0(x) ==
    CASE x.k = "fin" -> x.n > 0
      [] x.k = "inf" -> x.n > 0
      [] OTHER       -> FALSE

\* x == 0
IsZero(x) == x.k = "fin" /\ x.n = 0

\* x + y
FAdd(x, y) ==
    CASE IsErr(x) -> x
      [] IsErr(y) -> y
      [] x.k = "nan" \/ y.k = "nan" -> NaN
      [] x.k = "inf" /\ y.k = "inf" -> IF x.n = y.n THEN x ELSE NaN
      [] x.k = "inf" -> x
      [] y.k = "inf" -> y
      [] OTHER -> [k |-> "fin", n |-> x.n * y.d + y.n * x.d, d |-> x.d * y.d]

Sign(n) == IF n > 0 THEN 1 ELSE IF n < 0 THEN -1 ELSE 0

\* x / y
FDiv(x, y) ==
    CASE IsErr(x) -> x
      [] IsErr(y) -> y
      [] IsZero(y) -> [k |-> "ZeroDivisionError", n |-> 0, d |-> 1]
      [] x.k = "nan" \/ y.k = "nan" -> NaN
      [] x.k = "inf" /\ y.k = "inf" -> NaN
      [] x.k = "inf" -> [k |-> "inf", n |-> x.n * Sign(y.n), d |-> 1]
      [] y.k = "inf" -> Fin(0)
      [] OTHER -> [k |-> "fin", n |-> x.n * y.d * Sign(y.n),
                   d |-> x.d * y.n * Sign(y.n)]

\* x * 100
Times100(x) ==
    CASE x.k = "fin" -> [x EXCEPT !.n = 100 * x.n]
      [] OTHER       -> x

\* x == y for two floats
FEq(x, y) ==
    /\ x.k = "fin"
    /\ y.k = "fin"
    /\ x.n * y.d = y.n * x.d

RECURSIVE FSum(_)
\* sum(...) over a sequence of floats, left to right from 0
FSum(xs) ==
    IF xs = <<>> THEN Fin(0)
    ELSE FAdd(FSum(SubSeq(xs, 1, Len(xs) - 1)), xs[Len(xs)])

----------------------------------------------------------------------------
(* csv.writer / csv.DictWriter, default dialect, as save_expenses uses it *)

NeedsQuote(f) == \E i \in DOMAIN f : f[i] \in {COMMA, QUOTE, NL}

RECURSIVE DoubleQuotes(_)
DoubleQuotes(f) ==
    IF f = <<>> THEN <<>>
    ELSE (IF f[1] = QUOTE THEN <<QUOTE, QUOTE>> ELSE <<f[1]>>) \o DoubleQuotes(Tail(f))

\* a writer that joins the fields without quoting
WriteFieldRaw(f) == IF f = None THEN <<>> ELSE f

\* one field as the writer emits it (QUOTE_MINIMAL, doublequote); None is written empty
WriteField(f) ==
    IF f = None THEN <<>>
    ELSE IF NeedsQuote(f) THEN <<QUOTE>> \o DoubleQuotes(f) \o <<QUOTE>>
    ELSE f

RECURSIVE JoinFields(_)
JoinFields(fs) ==
    IF fs = <<>> THEN <<>>
    ELSE IF Len(fs) = 1 THEN WriteField(fs[1])
    ELSE WriteField(fs[1]) \o <<COMMA>> \o JoinFields(Tail(fs))

\* writer.writerow(list): the fields joined by the delimiter, then the line terminator
WriteRow(fs) == JoinFields(fs) \o <<NL>>

\* DictWriter._dict_to_list with extrasaction='raise': a key outside fieldnames raises
HasWrongFields(e) == (DOMAIN e) \ Range(fieldnames) # {}

\* DictWriter._dict_to_list: the values in fieldnames order, restval '' for a missing key
DictToList(e) ==
    [i \in DOMAIN fieldnames |->
        IF fieldnames[i] \in DOMAIN e THEN e[fieldnames[i]] ELSE <<>>]

RECURSIVE WriteRows(_)
\* writer.writerows(expenses): rows are written one by one until one raises
\* result: the text written and whether ValueError was raised
WriteRows(es) ==
    IF es = <<>> THEN [text |-> <<>>, err |-> FALSE]
    ELSE IF HasWrongFields(es[1]) THEN [text |-> <<>>, err |-> TRUE]
    ELSE LET rest == WriteRows(Tail(es))
         IN  [text |-> WriteRow(DictToList(es[1])) \o rest.text, err |-> rest.err]

\* a save that leaves out writer.writeheader()
SerializeNoHeader(es) == WriteRows(es)

\* writer.writeheader() followed by writer.writerows(expenses)
Serialize(es) ==
    LET body == WriteRows(es)
    IN  [text |-> WriteRow(fieldnames) \o body.text, err |-> body.err]

----------------------------------------------------------------------------
(* csv.reader / csv.DictReader, default dialect, as load_expenses uses it *)

RECURSIVE Parse(_, _, _, _, _, _)
\* the reader's state machine over the text s from position i :
\* st the parser state, fld the field being read, row the fields of the record
\* being read, rows the records already returned.
\* result: the records returned and whether the reader raised csv.Error
Parse(s, i, st, fld, row, rows) ==
    IF i > Len(s) THEN
        [rows |-> IF st = "START_RECORD" THEN rows ELSE Append(rows, Append(row, fld)),
         err  |-> FALSE]
    ELSE LET c == s[i] IN
        IF c = HUGE THEN [rows |-> rows, err |-> TRUE]
        ELSE IF st \in {"START_RECORD", "START_FIELD"} THEN
            IF c = NL THEN
                Parse(s, i + 1, "START_RECORD", <<>>, <<>>,
                      Append(rows, IF st = "START_RECORD" THEN <<>> ELSE Append(row, <<>>)))
            ELSE IF c = QUOTE THEN Parse(s, i + 1, "IN_QUOTED_FIELD", <<>>, row, rows)
            ELSE IF c = COMMA THEN Parse(s, i + 1, "START_FIELD", <<>>, Append(row, <<>>), rows)
            ELSE Parse(s, i + 1, "IN_FIELD", <<c>>, row, rows)
        ELSE IF st = "IN_FIELD" THEN
            IF c = NL THEN
                Parse(s, i + 1, "START_RECORD", <<>>, <<>>, Append(rows, Append(row, fld)))
            ELSE IF c = COMMA THEN Parse(s, i + 1, "START_FIELD", <<>>, Append(row, fld), rows)
            ELSE Parse(s, i + 1, "IN_FIELD", Append(fld, c), row, rows)
        ELSE IF st = "IN_QUOTED_FIELD" THEN
            IF c = QUOTE THEN Parse(s, i + 1, "QUOTE_IN_QUOTED_FIELD", fld, row, rows)
            ELSE Parse(s, i + 1, "IN_QUOTED_FIELD", Append(fld, c), row, rows)
        ELSE \* QUOTE_IN_QUOTED_FIELD
            IF c = QUOTE THEN Parse(s, i + 1, "IN_QUOTED_FIELD", Append(fld, QUOTE), row, rows)
            ELSE IF c = COMMA THEN Parse(s, i + 1, "START_FIELD", <<>>, Append(row, fld), rows)
            ELSE IF c = NL THEN
                Parse(s, i + 1, "START_RECORD", <<>>, <<>>, Append(rows, Append(row, fld)))
            ELSE Parse(s, i + 1, "IN_FIELD", Append(fld, c), row, rows)

\* csv.reader(file): every record of the text
ReadRows(s) == Parse(s, 1, "START_RECORD", <<>>, <<>>, <<>>)

\* the dict DictReader builds from a record: zip(fieldnames, row), surplus
\* fields under restkey, missing fields set to restval (None)
RowDict(names, row) ==
    LET keys == Range(names) \cup (IF Len(row) > Len(names) THEN {RestKey} ELSE {})
        last(k) == CHOOSE i \in DOMAIN names :
                      names[i] = k /\ \A j \in DOMAIN names : names[j] = k => j <= i
    IN  [k \in keys |->
            IF k = RestKey /\ k \notin Range(names)
            THEN SubSeq(row, Len(names) + 1, Len(row))
            ELSE IF last(k) <= Len(row) THEN row[last(k)] ELSE None]

RECURSIVE RowDicts(_, _)
\* DictReader.__next__ over the records after the header: empty records are skipped
RowDicts(names, rows) ==
    IF rows = <<>> THEN <<>>
    ELSE IF rows[1] = <<>> THEN RowDicts(names, Tail(rows))
    ELSE <<RowDict(names, rows[1])>> \o RowDicts(names, Tail(rows))

\* the loop `for row in reader: expenses.append(row)`: the rows appended
\* before the reader ends or raises, and whether it raised
ReadDicts(s) ==
    LET r == ReadRows(s)
    IN  [expenses |-> IF r.rows = <<>> THEN <<>>
                      ELSE RowDicts(r.rows[1], Tail(r.rows)),
         err |-> r.err]

----------------------------------------------------------------------------
(* Inputs of the session: what the file may hold at startup, what the user types *)

K_date        == <<"date">>
K_category    == <<"category">>
K_description == <<"description">>
K_amount      == <<"amount">>

RECURSIVE Lines(_)
\* a text file from its raw lines
Lines(ls) == IF ls = <<>> THEN <<>> ELSE ls[1] \o <<NL>> \o Lines(Tail(ls))

HeaderLine == <<"date", COMMA, "category", COMMA, "description", COMMA, "amount">>
RowFood5   == <<"2024-05-01", COMMA, "Food", COMMA, "a", COMMA, "5.0">>
RowOther3  == <<"2024-05-02", COMMA, "Other", COMMA, QUOTE, "a", COMMA, QUOTE, COMMA, "3.0">>
RowFoodInf == <<"2024-05-03", COMMA, "Food", COMMA, "b", COMMA, "inf">>
RowNeg5    == <<"2024-05-01", COMMA, "Other", COMMA, "a", COMMA, "-5.0">>
RowZero    == <<"2024-05-01", COMMA, "Food", COMMA, "a", COMMA, "0">>
RowAbc     == <<"2024-05-01", COMMA, "Food", COMMA, "a", COMMA, "abc">>
RowMisc    == <<"2024-05-01", COMMA, "Misc", COMMA, "a", COMMA, "5.0">>
RowShort   == <<"2024-05-01", COMMA, "Food">>
RowLong    == <<"2024-05-01", COMMA, "Food", COMMA, "a", COMMA, "5.0", COMMA, "x">>
RowHuge    == <<"2024-05-01", COMMA, "Food", COMMA, HUGE, COMMA, "5.0">>

\* the contents of expenses.csv a session may start from
InitFiles ==
    { NoFile,
      <<>>,
      Lines(<<HeaderLine>>),
      Lines(<<HeaderLine, RowFood5, RowOther3, RowFood5>>),
      Lines(<<HeaderLine, RowFood5, <<>>, RowFoodInf>>),
      Lines(<<HeaderLine, RowFood5, RowNeg5>>),
      Lines(<<HeaderLine, RowZero>>),
      Lines(<<HeaderLine, RowAbc>>),
      Lines(<<HeaderLine, RowMisc>>),
      Lines(<<HeaderLine, RowShort>>),
      Lines(<<HeaderLine, RowFood5, RowLong>>),
      Lines(<<HeaderLine, RowFood5, RowHuge, RowFood5>>),
      Lines(<<HeaderLine, RowHuge>>),
      Lines(<<<<"date", COMMA, "amount">>, <<"2024-05-01", COMMA, "5.0">>>>) }

\* what the user types at a numeric prompt
NumberInputs == { <<"-1">>, <<"0">>, <<"1">>, <<"2">>, <<"3">>, <<"4">>, <<"5">>, <<"x">> }
\* what the user types at the category prompts
CategoryInputs == { <<"0">>, <<"1">>, <<"7">>, <<"8">>, <<"x">> }
\* what the user types at the Description prompt
DescriptionInputs == { <<>>, <<SP>>, <<SP, "a", COMMA, QUOTE, "b", SP>> }
\* what the user types at the Amount prompt
AmountInputs == { <<"5">>, <<"inf">>, <<"0">>, <<"-5.0">>, <<"nan">>, <<"abc">> }
\* what the user types at the main menu
MenuInputs == { <<"1">>, <<"2">>, <<"3">>, <<"4">>, <<"5">>, <<"6">>, <<"9">> }

IntText == <<"0", "1", "2", "3", "4", "5", "6", "7", "8", "9">>

\* int(s): [ok, v]; ok is FALSE where int() raises ValueError
int(s) ==
    IF s = <<"-1">> THEN [ok |-> TRUE, v |-> -1]
    ELSE IF \E i \in DOMAIN IntText : <<IntText[i]>> = s
    THEN [ok |-> TRUE, v |-> (CHOOSE i \in DOMAIN IntText : <<IntText[i]>> = s) - 1]
    ELSE [ok |-> FALSE, v |-> 0]

RECURSIVE lstrip(_)
lstrip(s) == IF s # <<>> /\ s[1] = SP THEN lstrip(Tail(s)) ELSE s

RECURSIVE rstrip(_)
rstrip(s) ==
    IF s # <<>> /\ s[Len(s)] = SP THEN rstrip(SubSeq(s, 1, Len(s) - 1)) ELSE s

\* str.strip()
strip(s) == rstrip(lstrip(s))

----------------------------------------------------------------------------
(* Rendering: the exceptions the print statements of the views raise *)

\* the first exception of a sequence of evaluations, "none" if none raises
FirstErr(errs) ==
    IF \E i \in DOMAIN errs : errs[i] # "none"
    THEN errs[CHOOSE i \in DOMAIN errs :
                 errs[i] # "none" /\ \A j \in 1..(i - 1) : errs[j] = "none"]
    ELSE "none"

\* f"{expense[key]:<12}" and expense[key][:20]: KeyError without the key,
\* TypeError on None
FieldErr(e, key) ==
    IF key \notin DOMAIN e THEN "KeyError"
    ELSE IF e[key] = None THEN "TypeError"
    ELSE "none"

\* float(expense['amount'])
Amount(e) ==
    IF K_amount \notin DOMAIN e THEN [k |-> "KeyError", n |-> 0, d |-> 1]
    ELSE float(e[K_amount])

AmountErr(e) == IF IsErr(Amount(e)) THEN Amount(e).k ELSE "none"

\* expense['category'] == category
InCategory(e, cat) == e[K_category] = cat

\* a filter whose condition is always true
FilterAll(es, cat) == es

\* [e for e in expenses if e['category'] == category], where every dict has the key
Filter(es, cat) == SelectSeq(es, LAMBDA e : InCategory(e, cat))

\* the row print of view_all_expenses and delete_expense
RowErr(e) ==
    FirstErr(<<FieldErr(e, K_date), FieldErr(e, K_category),
               FieldErr(e, K_description), AmountErr(e)>>)

\* the row print of view_by_category
FilteredRowErr(e) ==
    FirstErr(<<FieldErr(e, K_date), FieldErr(e, K_description), AmountErr(e)>>)

\* the loop printing every row of a list
ListErr(es) == FirstErr([i \in DOMAIN es |-> RowErr(es[i])])

\* sum(float(e['amount']) for e in es)
Total(es) == FSum([i \in DOMAIN es |-> Amount(es[i])])

\* for e in expenses ... e['category']: KeyError when a dict lacks the key
CategoryKeyErr(es) ==
    IF \E i \in DOMAIN es : K_category \notin DOMAIN es[i] THEN "KeyError" ELSE "none"

ErrOf(x) == IF IsErr(x) THEN x.k ELSE "none"

\* the category list of view_by_category: per category the count, then the total
CategoryListErr(es) ==
    FirstErr(<<CategoryKeyErr(es)>> \o
             [i \in DOMAIN CATEGORIES |->
                 IF CategoryKeyErr(es) = "none"
                 THEN ErrOf(Total(Filter(es, CATEGORIES[i]))) ELSE "none"])

\* percentage = (amount / total) * 100
Percentage(amount, total) == Times100(FDiv(amount, total))

\* one line of the category breakdown of view_summary
BreakdownRow(es, cat) ==
    [category   |-> cat,
     count      |-> Len(Filter(es, cat)),
     amount     |-> Total(Filter(es, cat)),
     percentage |-> Percentage(Total(Filter(es, cat)), Total(es))]

\* the breakdown: one line per category of CATEGORIES, in order, that has expenses
Breakdown(es) ==
    LET cats == SelectSeq(CATEGORIES, LAMBDA c : Filter(es, c) # <<>>)
    IN  [i \in DOMAIN cats |-> BreakdownRow(es, cats[i])]

\* the first exception view_summary raises on a non-empty list
SummaryErr(es) ==
    FirstErr(<<ErrOf(Total(es)), CategoryKeyErr(es)>> \o
             (IF ErrOf(Total(es)) = "none" /\ CategoryKeyErr(es) = "none"
              THEN [i \in DOMAIN Breakdown(es) |-> ErrOf(Breakdown(es)[i].percentage)]
              ELSE <<>>))

NoOut == [kind |-> "none"]

----------------------------------------------------------------------------
(* The session *)

Init ==
    /\ file \in InitFiles
    /\ expenses = <<>>
    /\ pc = "start"
    /\ category = <<>>
    /\ description = <<>>
    /\ answer = <<>>
    /\ msg = ""
    /\ out = NoOut
    /\ exc = "none"

\* an uncaught exception ends the process with a traceback
Raise(e) ==
    /\ pc' = "crashed"
    /\ exc' = e
    /\ msg' = "Traceback"
    /\ out' = NoOut

\* input("Press Enter to continue...") on the way back to the menu
Pause(m, o) ==
    /\ pc' = "pause"
    /\ msg' = m
    /\ out' = o
    /\ exc' = exc

\* load_expenses(), called once by main()
LoadExpenses ==
    /\ pc = "start"
    /\ IF file = NoFile
       THEN /\ expenses' = <<>>
            /\ Pause("No existing expense file found. Starting fresh.", NoOut)
       ELSE \E openFails \in BOOLEAN :
            IF openFails
            THEN /\ expenses' = <<>>
                 /\ Pause("Error loading expenses", NoOut)
            ELSE LET r == ReadDicts(file)
                 IN  /\ expenses' = r.expenses
                     /\ Pause(IF r.err THEN "Error loading expenses" ELSE "Loaded", NoOut)
    /\ UNCHANGED <<file, category, description, answer>>

\* Enter at a "Press Enter to continue..." prompt; main() clears the screen
Continue ==
    /\ pc = "pause"
    /\ pc' = "menu"
    /\ msg' = ""
    /\ out' = NoOut
    /\ answer' = <<>>
    /\ UNCHANGED <<file, expenses, category, description, exc>>

\* menu choice '1': add_expense up to its category prompt
MenuAdd ==
    /\ pc = "menu"
    /\ Len(expenses) < MaxLen
    /\ pc' = "add_category"
    /\ answer' = <<"1">>
    /\ msg' = "ADD NEW EXPENSE"
    /\ UNCHANGED <<file, expenses, category, description, out, exc>>

\* add_expense: one answer at "Select category (1-7): "
AddCategory ==
    /\ pc = "add_category"
    /\ \E inp \in CategoryInputs :
        LET choice == int(inp) IN
        /\ answer' = inp
        /\ IF ~choice.ok
           THEN /\ msg' = "Invalid input. Please enter a number."
                /\ UNCHANGED <<pc, category>>
           ELSE IF 1 <= choice.v /\ choice.v <= 7
           THEN /\ category' = CATEGORIES[choice.v]
                /\ pc' = "add_description"
                /\ msg' = "Description: "
           ELSE /\ msg' = "Invalid choice. Please enter a number between 1 and 7."
                /\ UNCHANGED <<pc, category>>
    /\ UNCHANGED <<file, expenses, description, out, exc>>

\* add_expense: the answer at "Description: "
AddDescription ==
    /\ pc = "add_description"
    /\ \E inp \in DescriptionInputs :
        /\ answer' = inp
        /\ description' = IF strip(inp) = <<>> THEN <<"No description">> ELSE strip(inp)
    /\ pc' = "add_amount"
    /\ msg' = "Amount: "
    /\ UNCHANGED <<file, expenses, category, out, exc>>

\* the dict add_expense builds
NewExpense(date, cat, desc, amount) ==
    [k \in Range(fieldnames) |->
        CASE k = K_date        -> date
          [] k = K_category    -> cat
          [] k = K_description -> desc
          [] k = K_amount      -> str(amount)]

\* expenses.insert(0, expense)
Inserted(es, e) == <<e>> \o es

\* expenses.append(expense)
Appended(es, e) == Append(es, e)

\* add_expense: one answer at "Amount: ", and the append once it is accepted
AddAmount ==
    /\ pc = "add_amount"
    /\ \E inp \in AmountInputs :
        LET amount == float(inp) IN
        /\ answer' = inp
        /\ IF IsErr(amount)
           THEN /\ msg' = "Invalid amount. Please enter a number."
                /\ UNCHANGED <<pc, expenses, category, description, out, exc>>
           ELSE IF Gt0(amount)
           THEN /\ expenses' = Appended(expenses, NewExpense(Today, category, description, amount))
                /\ category' = <<>>
                /\ description' = <<>>
                /\ Pause("Expense added successfully!", NoOut)
           ELSE /\ msg' = "Amount must be greater than 0."
                /\ UNCHANGED <<pc, expenses, category, description, out, exc>>
    /\ UNCHANGED file

\* menu choice '2': view_all_expenses
ViewAllExpenses ==
    /\ pc = "menu"
    /\ answer' = <<"2">>
    /\ IF expenses = <<>> THEN Pause("No expenses recorded yet.", NoOut)
       ELSE IF ListErr(expenses) # "none" THEN Raise(ListErr(expenses))
       ELSE Pause("ALL EXPENSES", [kind |-> "all", total |-> Total(expenses)])
    /\ UNCHANGED <<file, expenses, category, description>>

\* menu choice '3': view_by_category up to its category prompt
ViewByCategory ==
    /\ pc = "menu"
    /\ answer' = <<"3">>
    /\ IF expenses = <<>> THEN Pause("No expenses recorded yet.", NoOut)
       ELSE IF CategoryListErr(expenses) # "none" THEN Raise(CategoryListErr(expenses))
       ELSE /\ pc' = "view_category"
            /\ msg' = "EXPENSES BY CATEGORY"
            /\ UNCHANGED <<out, exc>>
    /\ UNCHANGED <<file, expenses, category, description>>

\* view_by_category: one answer at "Select category (1-7): ", and the filtered list
SelectCategory ==
    /\ pc = "view_category"
    /\ \E inp \in CategoryInputs :
        LET choice == int(inp) IN
        /\ answer' = inp
        /\ IF ~choice.ok
           THEN /\ msg' = "Invalid input. Please enter a number."
                /\ UNCHANGED <<pc, out, exc>>
           ELSE IF 1 <= choice.v /\ choice.v <= 7
           THEN LET selected_category == CATEGORIES[choice.v]
                    filtered == Filter(expenses, selected_category)
                    err == FirstErr([i \in DOMAIN filtered |-> FilteredRowErr(filtered[i])])
                IN  IF err # "none" THEN Raise(err)
                    ELSE Pause("EXPENSES", [kind     |-> "category",
                                            selected |-> selected_category,
                                            filtered |-> filtered,
                                            total    |-> Total(filtered)])
           ELSE /\ msg' = "Invalid choice. Please enter a number between 1 and 7."
                /\ UNCHANGED <<pc, out, exc>>
    /\ UNCHANGED <<file, expenses, category, description>>

\* menu choice '4': view_summary
ViewSummary ==
    /\ pc = "menu"
    /\ answer' = <<"4">>
    /\ IF expenses = <<>> THEN Pause("No expenses recorded yet.", NoOut)
       ELSE IF SummaryErr(expenses) # "none" THEN Raise(SummaryErr(expenses))
       ELSE Pause("EXPENSE SUMMARY",
                  [kind      |-> "summary",
                   total     |-> Total(expenses),
                   count     |-> Len(expenses),
                   average   |-> FDiv(Total(expenses), Fin(Len(expenses))),
                   breakdown |-> Breakdown(expenses)])
    /\ UNCHANGED <<file, expenses, category, description>>

\* menu choice '5': delete_expense up to its prompt
DeleteExpense ==
    /\ pc = "menu"
    /\ answer' = <<"5">>
    /\ IF expenses = <<>> THEN Pause("No expenses to delete.", NoOut)
       ELSE IF ListErr(expenses) # "none" THEN Raise(ListErr(expenses))
       ELSE /\ pc' = "delete_choice"
            /\ msg' = "DELETE EXPENSE"
            /\ UNCHANGED <<out, exc>>
    /\ UNCHANGED <<file, expenses, category, description>>

\* expenses.pop(choice): the 1-based answer used as a 0-based index
PopZeroBased(es, choice) == SubSeq(es, 1, choice) \o SubSeq(es, choice + 2, Len(es))

\* expenses.pop(choice - 1)
Pop(es, choice) == SubSeq(es, 1, choice - 1) \o SubSeq(es, choice + 1, Len(es))

\* delete_expense: one answer at "Enter expense number to delete ... or 'c' to cancel: "
DeleteChoice ==
    /\ pc = "delete_choice"
    /\ \E inp \in NumberInputs \cup { <<"c">>, <<"C">> } :
        LET choice == int(inp) IN
        /\ answer' = inp
        /\ IF inp \in { <<"c">>, <<"C">> }
           THEN /\ pc' = "menu"
                /\ msg' = ""
                /\ UNCHANGED <<expenses, out, exc>>
           ELSE IF ~choice.ok
           THEN /\ msg' = "Invalid input. Please enter a number or 'c' to cancel."
                /\ UNCHANGED <<pc, expenses, out, exc>>
           ELSE IF 1 <= choice.v /\ choice.v <= Len(expenses)
           THEN /\ expenses' = Pop(expenses, choice.v)
                /\ Pause("Deleted expense", NoOut)
           ELSE /\ msg' = "Invalid choice. Please enter a number between 1 and len(expenses)."
                /\ UNCHANGED <<pc, expenses, out, exc>>
    /\ UNCHANGED <<file, category, description>>

\* menu choice '6': save_expenses, then the loop ends
SaveAndExit ==
    /\ pc = "menu"
    /\ answer' = <<"6">>
    /\ \E openFails \in BOOLEAN :
        IF openFails
        THEN /\ msg' = "Error saving expenses"
             /\ UNCHANGED file
        ELSE LET w == Serialize(expenses)
             IN  /\ file' = w.text
                 /\ msg' = IF w.err THEN "Error saving expenses"
                           ELSE "Expenses saved successfully!"
    /\ pc' = "exit"
    /\ UNCHANGED <<expenses, category, description, out, exc>>

\* any other menu choice
InvalidChoice ==
    /\ pc = "menu"
    /\ \E choice \in MenuInputs \ { <<"1">>, <<"2">>, <<"3">>, <<"4">>, <<"5">>, <<"6">> } :
        /\ answer' = choice
        /\ Pause("Invalid choice. Please try again.", NoOut)
    /\ UNCHANGED <<file, expenses, category, description>>

Next ==
    \/ LoadExpenses
    \/ Continue
    \/ MenuAdd
    \/ AddCategory
    \/ AddDescription
    \/ AddAmount
    \/ ViewAllExpenses
    \/ ViewByCategory
    \/ SelectCategory
    \/ ViewSummary
    \/ DeleteExpense
    \/ DeleteChoice
    \/ SaveAndExit
    \/ InvalidChoice

Spec == Init /\ [][Next]_vars

----------------------------------------------------------------------------
(* Properties *)

Saved == pc = "exit" /\ msg = "Expenses saved successfully!"

\* a dict as add_expense builds it: a string under each of the four keys, no other key
AddShaped(e) == DOMAIN e = Range(fieldnames) /\ \A k \in DOMAIN e : e[k] # None

\* C1: save followed by load is a round trip.  Once a collection whose records
\* hold a string under each of the four keys (as every record made by add does)
\* has been saved, load_expenses reads from the file, without failure, a
\* collection equal to it: same length, same order, equal field for field.
C1_SaveLoadRoundTrip ==
    (Saved /\ \A i \in DOMAIN expenses : AddShaped(expenses[i]))
        => /\ ~ReadDicts(file).err
           /\ ReadDicts(file).expenses = expenses

\* two records were saved, one of them added in this session with a
\* description that holds a comma and a double quote
C1_Witness ==
    /\ Saved
    /\ Len(expenses) = 2
    /\ \A i \in DOMAIN expenses : AddShaped(expenses[i])
    /\ \E i \in DOMAIN expenses :
        /\ expenses[i][K_date] = Today
        /\ COMMA \in Range(expenses[i][K_description])
        /\ QUOTE \in Range(expenses[i][K_description])

\* C2: a numeric answer i at the delete prompt on a collection of length n:
\* for 1 <= i <= n the i-th record is removed and the others keep their value
\* and relative order; for any other i the answer is refused as out of range
\* and the collection is unchanged.
C2_DeleteContract ==
    [][(pc = "delete_choice" /\ int(answer').ok) =>
        LET i == int(answer').v
            n == Len(expenses)
        IN  IF 1 <= i /\ i <= n
            THEN /\ Len(expenses') = n - 1
                 /\ \A j \in 1..(n - 1) :
                        expenses'[j] = expenses[IF j < i THEN j ELSE j + 1]
                 /\ msg' = "Deleted expense"
            ELSE /\ expenses' = expenses
                 /\ pc' = "delete_choice"
                 /\ msg' = "Invalid choice. Please enter a number between 1 and len(expenses)."
      ]_vars

\* the second of three records was just deleted
C2_Witness ==
    /\ pc = "pause"
    /\ msg = "Deleted expense"
    /\ answer = <<"2">>
    /\ Len(expenses) = 2

\* C3: when load_expenses reports a failure, the collection it returns is empty.
C3_LoadFailureYieldsEmpty ==
    (pc = "pause" /\ msg = "Error loading expenses") => expenses = <<>>

\* C4: once loaded, every record of the collection has amount > 0 and a
\* category of CATEGORIES, in every state of the session.
C4_RecordsValid ==
    pc # "start" =>
        \A i \in DOMAIN expenses :
            /\ K_amount \in DOMAIN expenses[i]
            /\ K_category \in DOMAIN expenses[i]
            /\ Gt0(float(expenses[i][K_amount]))
            /\ expenses[i][K_category] \in Range(CATEGORIES)

\* C5: no failure terminates the process: the session never ends by an
\* uncaught exception.
C5_NoFailureTerminates == pc # "crashed" /\ exc = "none"

\* C6: the summary never divides by a zero total (percentage) nor by a zero
\* count (average).
C6_DivisionsGuarded == exc # "ZeroDivisionError"

\* C7: the filtered list view_by_category shows for a selected category holds
\* exactly the records of that category in their original relative order, its
\* length plus the number of records of other categories is the length of the
\* collection, and the collection is not modified.
C7_FilterByCategory ==
    [][(pc = "view_category" /\ pc' = "pause") =>
        LET sel == CATEGORIES[int(answer').v]
            f == out'.filtered
            n == Len(expenses)
            others == {i \in 1..n : expenses[i][K_category] # sel}
        IN  /\ expenses' = expenses
            /\ \A j \in DOMAIN f : f[j][K_category] = sel
            /\ Len(f) + Cardinality(others) = n
            /\ \E idx \in [1..Len(f) -> 1..n] :
                /\ \A j \in 1..Len(f) : f[j] = expenses[idx[j]]
                /\ \A j, k \in 1..Len(f) : j < k => idx[j] < idx[k]
      ]_vars

\* two of three records were selected by the filter
C7_Witness ==
    /\ pc = "pause"
    /\ out.kind = "category"
    /\ Len(out.filtered) = 2
    /\ Len(expenses) = 3

\* C8: whenever the summary is shown for a collection with total > 0, the
\* percentages of its breakdown sum to 100.
C8_PercentagesSumTo100 ==
    (pc = "pause" /\ out.kind = "summary" /\ Gt0(out.total)) =>
        FEq(FSum([i \in DOMAIN out.breakdown |-> out.breakdown[i].percentage]), Fin(100))

\* the row save writes for a record: its four values in fieldnames order, an
\* absent or None value written empty
RowOf(e) ==
    [j \in DOMAIN fieldnames |->
        IF fieldnames[j] \in DOMAIN e /\ e[fieldnames[j]] # None
        THEN e[fieldnames[j]] ELSE <<>>]

\* the file f holds the header row followed by one row per record of es, in order
FileHoldsCollection(f, es) ==
    /\ f # NoFile
    /\ ~ReadRows(f).err
    /\ ReadRows(f).rows = <<fieldnames>> \o [i \in DOMAIN es |-> RowOf(es[i])]

\* C9 as stated: the file changes only at Save and Exit, and Save and Exit
\* leaves in it the header row and one row per record of the collection.
C9_NoPartialPersistence ==
    [][/\ file' # file => (pc = "menu" /\ pc' = "exit")
       /\ (pc = "menu" /\ pc' = "exit") => FileHoldsCollection(file', expenses)
      ]_vars

\* C9 amended: the file changes only at Save and Exit, and a Save and Exit that
\* reports success leaves in it the header row and one row per record of the
\* collection, in collection order.
C9_PersistenceOnlyAtSave ==
    [][/\ file' # file => (pc = "menu" /\ pc' = "exit")
       /\ (pc = "menu" /\ pc' = "exit" /\ msg' = "Expenses saved successfully!")
            => FileHoldsCollection(file', expenses)
      ]_vars

\* a collection holding a record added in this session was saved
C9_Witness ==
    /\ Saved
    /\ FileHoldsCollection(file, expenses)
    /\ \E i \in DOMAIN expenses :
        K_date \in DOMAIN expenses[i] /\ expenses[i][K_date] = Today

IsPrefix(a, b) == Len(a) <= Len(b) /\ SubSeq(b, 1, Len(a)) = a

\* C10: add appends exactly one record at the end: the previous records keep
\* their value and position, the new record has a category of CATEGORIES, a
\* non-empty description (the placeholder when the answer was blank) and an
\* amount > 0; and no step other than load and delete changes or removes a
\* record the collection holds.
C10_AddAppends ==
    [][/\ pc = "add_description" =>
            /\ description' # <<>>
            /\ (\A i \in DOMAIN answer' : answer'[i] = SP)
                   => description' = <<"No description">>
       /\ (pc = "add_amount" /\ pc' = "pause") =>
            /\ Len(expenses') = Len(expenses) + 1
            /\ SubSeq(expenses', 1, Len(expenses)) = expenses
            /\ LET e == expenses'[Len(expenses')]
               IN  /\ DOMAIN e = Range(fieldnames)
                   /\ e[K_date] = Today
                   /\ e[K_category] \in Range(CATEGORIES)
                   /\ e[K_description] = description
                   /\ e[K_description] # <<>>
                   /\ Gt0(float(e[K_amount]))
       /\ pc \notin {"start", "delete_choice"} => IsPrefix(expenses, expenses')
      ]_vars

\* a record with the placeholder description was just appended to a record
C10_Witness ==
    /\ pc = "pause"
    /\ msg = "Expense added successfully!"
    /\ Len(expenses) = 2
    /\ expenses[2][K_description] = <<"No description">>

====
